---- MODULE Spec2Model ----
(***************************************************************************)
(* Model of the wordlist generation engine (src/wordlist_generator.py).    *)
(*                                                                         *)
(* A Python str is a sequence of code points (integers): sorted() compares *)
(* strings by code point, and upper/lower/isdigit/\w are ranges of them.   *)
(* "dog" is <<100, 111, 103>>.                                            *)
(***************************************************************************)
EXTENDS Integers, Sequences, FiniteSets, TLC

(***************************************************************************)
(* Characters and the str methods the generator uses                       *)
(***************************************************************************)
IsLowerCh(c) == c \in 97..122
IsUpperCh(c) == c \in 65..90
IsDigitCh(c) == c \in 48..57
\* \w of the re module: letters, digits and the underscore
IsWordCh(c) == IsLowerCh(c) \/ IsUpperCh(c) \/ IsDigitCh(c) \/ c = 95
\* str.strip() removes blanks: space, \t, \n, \r
IsSpaceCh(c) == c \in {32, 9, 10, 13}

LowerCh(c) == IF IsUpperCh(c) THEN c + 32 ELSE c
UpperCh(c) == IF IsLowerCh(c) THEN c - 32 ELSE c

lower(s) == [i \in 1..Len(s) |-> LowerCh(s[i])]
upper(s) == [i \in 1..Len(s) |-> UpperCh(s[i])]

\* a mutant of capitalize: the first character is left as it is
capitalize_KeepFirst(s) == [i \in 1..Len(s) |-> LowerCh(s[i])]
\* str.capitalize(): first character upper-cased, all the others lower-cased
capitalize(s) == [i \in 1..Len(s) |-> IF i = 1 THEN UpperCh(s[i]) ELSE LowerCh(s[i])]

\* str.isdigit() on ASCII text: non-empty and only digits
isdigit(s) == Len(s) > 0 /\ \A i \in 1..Len(s) : IsDigitCh(s[i])
\* str.islower(): at least one cased character, and no upper-case character
islower(s) == (\E i \in 1..Len(s) : IsLowerCh(s[i])) /\ (\A i \in 1..Len(s) : ~IsUpperCh(s[i]))

RECURSIVE LStrip(_)
LStrip(s) == IF s # <<>> /\ IsSpaceCh(Head(s)) THEN LStrip(Tail(s)) ELSE s
RECURSIVE RStrip(_)
RStrip(s) == IF s # <<>> /\ IsSpaceCh(s[Len(s)]) THEN RStrip(SubSeq(s, 1, Len(s) - 1)) ELSE s
strip(s) == RStrip(LStrip(s))

\* `sub in s` for strings
Contains(s, sub) ==
    \E i \in 0..(Len(s) - Len(sub)) : \A k \in 1..Len(sub) : s[i + k] = sub[k]

\* a mutant of replace: only the first occurrence is replaced
replace_FirstOnly(s, old, new) ==
    [i \in 1..Len(s) |->
        IF s[i] = old /\ (\A k \in 1..(i - 1) : s[k] # old) THEN new ELSE s[i]]
\* str.replace(old, new) for one-character old and new: every occurrence
replace(s, old, new) == [i \in 1..Len(s) |-> IF s[i] = old THEN new ELSE s[i]]

\* str(n) for n >= 0
RECURSIVE str(_)
str(n) == IF n < 10 THEN <<48 + n>> ELSE str(n \div 10) \o <<48 + (n % 10)>>

SeqToSet(q) == {q[i] : i \in 1..Len(q)}

\* q[:k] of a Python list, for every integer k: a negative k counts from the end
Slice(q, k) ==
    IF k >= 0 THEN SubSeq(q, 1, IF k < Len(q) THEN k ELSE Len(q))
    ELSE SubSeq(q, 1, IF Len(q) + k > 0 THEN Len(q) + k ELSE 0)

(***************************************************************************)
(* sorted(): ascending code-point order, a proper prefix before its         *)
(* extensions.  Computed by most-significant-character buckets.            *)
(***************************************************************************)
Less(a, b) ==
    \/ \E i \in 1..Len(a) : /\ i <= Len(b)
                            /\ a[i] < b[i]
                            /\ \A k \in 1..(i - 1) : a[k] = b[k]
    \/ Len(a) < Len(b) /\ \A k \in 1..Len(a) : a[k] = b[k]

MinOf(S) == CHOOSE c \in S : \A d \in S : c <= d

RECURSIVE SortFrom(_, _)
RECURSIVE SortBuckets(_, _, _)
\* the members of S, which agree on their first k-1 characters, in order
SortFrom(S, k) ==
    IF S = {} THEN <<>>
    ELSE IF Cardinality(S) = 1 THEN <<CHOOSE s \in S : TRUE>>
    ELSE LET ended == {s \in S : Len(s) < k}
             rest  == S \ ended
         IN  SortFrom(ended, k) \o SortBuckets(rest, k, {s[k] : s \in rest})
SortBuckets(S, k, cs) ==
    IF cs = {} THEN <<>>
    ELSE LET c == MinOf(cs)
         IN  SortFrom({s \in S : s[k] = c}, k + 1) \o SortBuckets(S, k, cs \ {c})

sorted(S) == SortFrom(S, 1)

IsSortedSeq(q) == \A i \in 1..(Len(q) - 1) : Less(q[i], q[i + 1])

(***************************************************************************)
(* WordlistGenerator.__init__: the instance's tables                       *)
(***************************************************************************)
\* ['1', '12', '123', '1234', '01', '001', '2024', '2025']
common_numbers ==
    << <<49>>, <<49, 50>>, <<49, 50, 51>>, <<49, 50, 51, 52>>, <<48, 49>>,
       <<48, 48, 49>>, <<50, 48, 50, 52>>, <<50, 48, 50, 53>> >>

\* ['', 'my', 'the', 'i', 'love']
prefixes ==
    << <<>>, <<109, 121>>, <<116, 104, 101>>, <<105>>, <<108, 111, 118, 101>> >>

\* ['', '!', '!!', '123', '12', '1', '01', '001', '@', '#']
suffixes ==
    << <<>>, <<33>>, <<33, 33>>, <<49, 50, 51>>, <<49, 50>>, <<49>>, <<48, 49>>,
       <<48, 48, 49>>, <<64>>, <<35>> >>

\* {'a': ['@','4'], 'e': ['3'], 'i': ['1','!'], 'o': ['0'], 's': ['5','$'],
\*  't': ['7'], 'l': ['1'], 'g': ['9'], 'b': ['6']}
leet_substitutions ==
    (97 :> <<64, 52>>) @@ (101 :> <<51>>) @@ (105 :> <<49, 33>>) @@ (111 :> <<48>>) @@
    (115 :> <<53, 36>>) @@ (116 :> <<55>>) @@ (108 :> <<49>>) @@ (103 :> <<57>>) @@
    (98 :> <<54>>)

\* ['', '_', '-', '.', '!', '@', '#']
separators == << <<>>, <<95>>, <<45>>, <<46>>, <<33>>, <<64>>, <<35>> >>

\* range(current_year - 50, current_year + 5): the upper end is excluded
YearsBack == 50
YearsAhead == 5
\* self.years as __init__ computes it from the year the clock shows
YearWindow(current_year) ==
    [i \in 1..(YearsBack + YearsAhead) |-> str(current_year - YearsBack + i - 1)]

(***************************************************************************)
(* _process_dates: re.findall of five patterns on each stripped date       *)
(***************************************************************************)
DigitsAt(s, i, n) == i + n - 1 <= Len(s) /\ \A k \in i..(i + n - 1) : IsDigitCh(s[k])
CharAt(s, i, c) == i <= Len(s) /\ s[i] = c
NoMatch == [ok |-> FALSE, groups |-> <<>>, end |-> 0]

\* (\d{4}) at position i
MatchYear(s, i) ==
    IF DigitsAt(s, i, 4)
    THEN [ok |-> TRUE, groups |-> <<SubSeq(s, i, i + 3)>>, end |-> i + 3]
    ELSE NoMatch

\* (\d{1,2})SEP(\d{1,2})SEP(\d{4}) at position i; \d{1,2} is greedy, two
\* digits are tried before one
MatchDMY(s, i, sep) ==
    LET second(j, g1) ==
            LET last(k, g2) ==
                    IF CharAt(s, k, sep) /\ DigitsAt(s, k + 1, 4)
                    THEN [ok |-> TRUE, groups |-> <<g1, g2, SubSeq(s, k + 1, k + 4)>>,
                          end |-> k + 4]
                    ELSE NoMatch
                two == IF DigitsAt(s, j, 2) THEN last(j + 2, SubSeq(s, j, j + 1)) ELSE NoMatch
                one == IF DigitsAt(s, j, 1) THEN last(j + 1, SubSeq(s, j, j)) ELSE NoMatch
            IN  IF two.ok THEN two ELSE one
        two == IF DigitsAt(s, i, 2) /\ CharAt(s, i + 2, sep)
               THEN second(i + 3, SubSeq(s, i, i + 1)) ELSE NoMatch
        one == IF DigitsAt(s, i, 1) /\ CharAt(s, i + 1, sep)
               THEN second(i + 2, SubSeq(s, i, i)) ELSE NoMatch
    IN  IF two.ok THEN two ELSE one

\* (\d{4})-(\d{1,2})-(\d{1,2}) at position i
MatchYMD(s, i) ==
    LET last(k, g2) ==
            IF ~CharAt(s, k, 45) THEN NoMatch
            ELSE IF DigitsAt(s, k + 1, 2)
            THEN [ok |-> TRUE, groups |-> <<SubSeq(s, i, i + 3), g2, SubSeq(s, k + 1, k + 2)>>,
                  end |-> k + 2]
            ELSE IF DigitsAt(s, k + 1, 1)
            THEN [ok |-> TRUE, groups |-> <<SubSeq(s, i, i + 3), g2, SubSeq(s, k + 1, k + 1)>>,
                  end |-> k + 1]
            ELSE NoMatch
        two == IF DigitsAt(s, i + 5, 2) THEN last(i + 7, SubSeq(s, i + 5, i + 6)) ELSE NoMatch
        one == IF DigitsAt(s, i + 5, 1) THEN last(i + 6, SubSeq(s, i + 5, i + 5)) ELSE NoMatch
    IN  IF DigitsAt(s, i, 4) /\ CharAt(s, i + 4, 45)
        THEN (IF two.ok THEN two ELSE one)
        ELSE NoMatch

\* date_formats, in the order of the list
NumDateFormats == 5
MatchAt(p, s, i) ==
    CASE p = 1 -> MatchYear(s, i)
      [] p = 2 -> MatchDMY(s, i, 47)
      [] p = 3 -> MatchDMY(s, i, 45)
      [] p = 4 -> MatchYMD(s, i)
      [] p = 5 -> MatchDMY(s, i, 46)

\* re.findall(pattern, s): leftmost matches, not overlapping; the groups of
\* every match, in order (date_words.extend / append)
RECURSIVE FindAll(_, _, _)
FindAll(p, s, i) ==
    IF i > Len(s) THEN <<>>
    ELSE LET m == MatchAt(p, s, i)
         IN  IF m.ok THEN m.groups \o FindAll(p, s, m.end + 1)
             ELSE FindAll(p, s, i + 1)

\* a mutant of DateWordsOf: only the first pattern that matches is used
RECURSIVE DateWordsOf_FirstMatch(_, _)
DateWordsOf_FirstMatch(s, p) ==
    IF p > NumDateFormats THEN <<>>
    ELSE IF FindAll(p, s, 1) # <<>> THEN FindAll(p, s, 1)
    ELSE DateWordsOf_FirstMatch(s, p + 1)

RECURSIVE DateWordsOf(_, _)
DateWordsOf(s, p) ==
    IF p > NumDateFormats THEN <<>> ELSE FindAll(p, s, 1) \o DateWordsOf(s, p + 1)

RECURSIVE AllDateWords(_)
AllDateWords(dates) ==
    IF dates = <<>> THEN <<>>
    ELSE (IF strip(Head(dates)) = <<>> THEN <<>> ELSE DateWordsOf(strip(Head(dates)), 1))
         \o AllDateWords(Tail(dates))

process_dates(dates) == SelectSeq(AllDateWords(dates), isdigit)

(***************************************************************************)
(* _generate_leet_variations                                               *)
(***************************************************************************)
\* leet_chars: for every character, itself and then its substitutes
LeetOptions(c) ==
    IF c \in DOMAIN leet_substitutions
    THEN {c} \cup SeqToSet(leet_substitutions[c])
    ELSE {c}

\* itertools.product(*leet_chars), every tuple joined
RECURSIVE LeetProduct(_)
LeetProduct(w) ==
    IF w = <<>> THEN {<<>>}
    ELSE {<<c>> \o r : c \in LeetOptions(Head(w)), r \in LeetProduct(Tail(w))}

\* at most this many characters get the full product
LeetProductMaxLen == 6

\* a mutant of generate_leet_variations: the word itself is not left out
generate_leet_variations_KeepsWord(word) ==
    LET w == lower(word)
        found ==
            IF Len(w) <= LeetProductMaxLen
            THEN LeetProduct(w)
            ELSE {replace(w, c, leet_substitutions[c][k]) :
                      <<c, k>> \in {<<c, k>> \in (DOMAIN leet_substitutions) \X (1..2) :
                                        k <= Len(leet_substitutions[c])}}
    IN  found \cup {capitalize(v) : v \in found}

\* a mutant of generate_leet_variations: the full product whatever the length
generate_leet_variations_NoThreshold(word) ==
    LET w == lower(word)
        found == LeetProduct(w) \ {w}
    IN  found \cup {capitalize(v) : v \in found}

generate_leet_variations(word) ==
    LET w == lower(word)
        found ==
            IF Len(w) <= LeetProductMaxLen
            THEN LeetProduct(w) \ {w}
            ELSE {replace(w, c, leet_substitutions[c][k]) :
                      <<c, k>> \in {<<c, k>> \in (DOMAIN leet_substitutions) \X (1..2) :
                                        k <= Len(leet_substitutions[c])}} \ {w}
    IN  found \cup {capitalize(v) : v \in found}

(***************************************************************************)
(* _generate_word_variations                                               *)
(***************************************************************************)
\* a mutant of Clean: the characters that are no word characters are kept
Clean_KeepSymbols(word) == lower(word)
\* re.sub(r'[^\w]', '', word.lower())
Clean(word) == SelectSeq(lower(word), IsWordCh)

\* variations of a very short word are dropped
MinWordLen == 3

\* clean_word, clean_word.capitalize(), clean_word.upper()
IdentityForms(clean_word) == {clean_word, capitalize(clean_word), upper(clean_word)}

\* prefix + word + suffix, for every prefix and suffix that are not both empty
AffixForms(clean_word) ==
    UNION {{prefixes[p] \o clean_word \o suffixes[s],
            prefixes[p] \o capitalize(clean_word) \o suffixes[s]} :
               <<p, s>> \in {<<p, s>> \in (DOMAIN prefixes) \X (DOMAIN suffixes) :
                                 prefixes[p] # <<>> \/ suffixes[s] # <<>>}}

\* word + num, Word + num, num + word
NumberForms(clean_word) ==
    UNION {{clean_word \o common_numbers[n], capitalize(clean_word) \o common_numbers[n],
            common_numbers[n] \o clean_word} : n \in DOMAIN common_numbers}

\* word + year, Word + year, for every year of self.years
YearForms(clean_word, yrs) ==
    UNION {{clean_word \o yrs[y], capitalize(clean_word) \o yrs[y]} : y \in DOMAIN yrs}

\* a mutant of generate_word_variations: the leetspeak forms are always added
generate_word_variations_AlwaysLeet(word, include_leet, include_years, yrs) ==
    LET clean_word == Clean(word)
        variations ==
            IdentityForms(clean_word) \cup AffixForms(clean_word) \cup NumberForms(clean_word)
            \cup (IF include_years THEN YearForms(clean_word, yrs) ELSE {})
            \cup generate_leet_variations(clean_word)
    IN  IF clean_word = <<>> THEN {} ELSE {v \in variations : Len(v) >= MinWordLen}

\* a mutant of generate_word_variations: the "1" + word form is forgotten
generate_word_variations_NoNumPrefix(word, include_leet, include_years, yrs) ==
    LET clean_word == Clean(word)
        variations ==
            IdentityForms(clean_word) \cup AffixForms(clean_word)
            \cup UNION {{clean_word \o common_numbers[n],
                         capitalize(clean_word) \o common_numbers[n]} :
                            n \in DOMAIN common_numbers}
            \cup (IF include_years THEN YearForms(clean_word, yrs) ELSE {})
            \cup (IF include_leet THEN generate_leet_variations(clean_word) ELSE {})
    IN  IF clean_word = <<>> THEN {} ELSE {v \in variations : Len(v) >= MinWordLen}

\* a mutant of generate_word_variations: the very short words are kept
generate_word_variations_NoLengthFilter(word, include_leet, include_years, yrs) ==
    LET clean_word == Clean(word)
    IN  IF clean_word = <<>> THEN {}
        ELSE IdentityForms(clean_word) \cup AffixForms(clean_word) \cup NumberForms(clean_word)
             \cup (IF include_years THEN YearForms(clean_word, yrs) ELSE {})
             \cup (IF include_leet THEN generate_leet_variations(clean_word) ELSE {})

generate_word_variations(word, include_leet, include_years, yrs) ==
    LET clean_word == Clean(word)
        variations ==
            IdentityForms(clean_word) \cup AffixForms(clean_word) \cup NumberForms(clean_word)
            \cup (IF include_years THEN YearForms(clean_word, yrs) ELSE {})
            \cup (IF include_leet THEN generate_leet_variations(clean_word) ELSE {})
    IN  \* an empty clean word returns early; very short words are removed
        IF clean_word = <<>> THEN {} ELSE {v \in variations : Len(v) >= MinWordLen}

(***************************************************************************)
(* _generate_combinations                                                  *)
(***************************************************************************)
\* common_numbers[:3] and self.years[:5] are used for combinations
ComboNumbers == 3
ComboYears == 5
\* list(combinations)[:1000]
ComboCap == 1000

\* what one ordered pair of clean words contributes
PairCombos(clean_word1, clean_word2, include_years, yrs) ==
    UNION {LET combo == clean_word1 \o separators[s] \o clean_word2
           IN  {combo, capitalize(combo)}
               \cup {combo \o common_numbers[n] : n \in 1..ComboNumbers}
               \cup (IF include_years THEN {combo \o yrs[y] : y \in 1..ComboYears} ELSE {})
           : s \in DOMAIN separators}

\* a mutant of AllCombos: every pair is taken in one order only (i < j)
AllCombos_OneOrder(words, include_years, yrs) ==
    UNION {PairCombos(Clean(words[p[1]]), Clean(words[p[2]]), include_years, yrs) :
               p \in {p \in (DOMAIN words) \X (DOMAIN words) :
                          /\ p[1] < p[2]
                          /\ Clean(words[p[1]]) # <<>>
                          /\ Clean(words[p[2]]) # <<>>}}

\* a mutant of AllCombos: words that clean to nothing are combined as well
AllCombos_NoEmptyGuard(words, include_years, yrs) ==
    UNION {PairCombos(Clean(words[p[1]]), Clean(words[p[2]]), include_years, yrs) :
               p \in {p \in (DOMAIN words) \X (DOMAIN words) : p[1] # p[2]}}

\* the set built by the two loops, before it is cut
AllCombos(words, include_years, yrs) ==
    UNION {PairCombos(Clean(words[p[1]]), Clean(words[p[2]]), include_years, yrs) :
               p \in {p \in (DOMAIN words) \X (DOMAIN words) :
                          /\ p[1] # p[2]
                          /\ Clean(words[p[1]]) # <<>>
                          /\ Clean(words[p[2]]) # <<>>}}

\* The order in which list(a_set) yields strings is the order of the hash
\* table's slots: it follows the strings' hashes, which are salted per process
\* (PYTHONHASHSEED).  The model's hash: a sum of the characters weighted by
\* position and seed; the slots are visited in ascending order.
HashSlots == 8
RECURSIVE StrHash(_, _, _)
StrHash(s, seed, i) ==
    IF i > Len(s) THEN 0
    ELSE (s[i] * (i + seed) + StrHash(s, seed, i + 1)) % HashSlots

\* the members of a set of <<slot, string>> pairs, slot after slot
RECURSIVE SlotsFrom(_, _)
SlotsFrom(hashed, slot) ==
    IF slot >= HashSlots THEN <<>>
    ELSE sorted({h[2] : h \in {h \in hashed : h[1] = slot}}) \o SlotsFrom(hashed, slot + 1)

\* list(S) under the process's hash seed
IterationOrder(S, seed) == SlotsFrom({<<StrHash(s, seed, 1), s>> : s \in S}, 0)

\* a mutant of generate_combinations: the set is returned as it is, not cut
generate_combinations_NoCap(words, include_leet, include_years, yrs, seed) ==
    IF Len(words) < 2 THEN {} ELSE AllCombos(words, include_years, yrs)

generate_combinations(words, include_leet, include_years, yrs, seed) ==
    IF Len(words) < 2 THEN {}
    ELSE LET combinations == AllCombos(words, include_years, yrs)
         IN  IF Cardinality(combinations) <= ComboCap THEN combinations
             ELSE SeqToSet(SubSeq(IterationOrder(combinations, seed), 1, ComboCap))

(***************************************************************************)
(* _prioritize_words                                                       *)
(***************************************************************************)
\* the characters counted as leetspeak: '@31057!'
LeetMarkers == {64, 51, 49, 48, 53, 55, 33}
\* self.years[:10]
ScoreYears == 10

word_score(word, yrs) ==
    LET len_part == IF 20 - Len(word) > 0 THEN 20 - Len(word) ELSE 0
        \* re.search(r'\d+$', word)
        digit_part == IF Len(word) > 0 /\ IsDigitCh(word[Len(word)]) THEN 10 ELSE 0
        \* word[0].isupper() and word[1:].islower()
        cap_part == IF IsUpperCh(word[1]) /\ islower(Tail(word)) THEN 5 ELSE 0
        year_part == IF \E y \in 1..ScoreYears : Contains(word, yrs[y]) THEN 15 ELSE 0
        leet_count == Cardinality({i \in 1..Len(word) : word[i] \in LeetMarkers})
        leet_part == IF leet_count * 3 < 10 THEN leet_count * 3 ELSE 10
    IN  len_part + digit_part + cap_part + year_part + leet_part

MaxOf(S) == CHOOSE c \in S : \A d \in S : c >= d

\* a mutant of SortByScore: reverse=True is forgotten, the lowest score is first
RECURSIVE SortByScore_Ascending(_)
SortByScore_Ascending(scored_words) ==
    IF scored_words = <<>> THEN <<>>
    ELSE LET low == MinOf({scored_words[i][2] : i \in DOMAIN scored_words})
         IN  SelectSeq(scored_words, LAMBDA x : x[2] = low)
             \o SortByScore_Ascending(SelectSeq(scored_words, LAMBDA x : x[2] > low))

\* a mutant of SortByScore: the sort is not stable, words of equal score
\* come out in the reverse of the order they had
RECURSIVE SortByScore_TiesReversed(_)
SortByScore_TiesReversed(scored_words) ==
    IF scored_words = <<>> THEN <<>>
    ELSE LET top == MaxOf({scored_words[i][2] : i \in DOMAIN scored_words})
             group == SelectSeq(scored_words, LAMBDA x : x[2] = top)
         IN  [i \in DOMAIN group |-> group[Len(group) + 1 - i]]
             \o SortByScore_TiesReversed(SelectSeq(scored_words, LAMBDA x : x[2] < top))

\* scored_words.sort(key=lambda x: x[1], reverse=True): the sort is stable,
\* pairs of equal score keep the order they have in the list
RECURSIVE SortByScore(_)
SortByScore(scored_words) ==
    IF scored_words = <<>> THEN <<>>
    ELSE LET top == MaxOf({scored_words[i][2] : i \in DOMAIN scored_words})
         IN  SelectSeq(scored_words, LAMBDA x : x[2] = top)
             \o SortByScore(SelectSeq(scored_words, LAMBDA x : x[2] < top))

\* word[0] of word_score raises IndexError for the empty string
IndexError(word) == word = <<>>
\* every word of the list is scored: the call raises when one of them does
prioritize_raises(wordlist) == \E i \in DOMAIN wordlist : IndexError(wordlist[i])

prioritize_words(wordlist, max_words, yrs) ==
    LET scored_words ==
            SortByScore([k \in DOMAIN wordlist |->
                            <<wordlist[k], word_score(wordlist[k], yrs)>>])
        kept == Slice(scored_words, max_words)
    IN  [i \in DOMAIN kept |-> kept[i][1]]

(***************************************************************************)
(* generate_wordlist                                                       *)
(***************************************************************************)
\* [x.strip() for x in xs if x.strip()]
Stripped(xs) == SelectSeq([i \in DOMAIN xs |-> strip(xs[i])], LAMBDA x : x # <<>>)

BaseWords(req) ==
    Stripped(req.names) \o Stripped(req.pets) \o Stripped(req.interests)
    \o process_dates(req.dates)

\* base_words[:5] go to the combinations
ComboWords == 5

\* lines 89-94: what the loop over the base words adds to `wordlist`
WordVariations(base_words, req, yrs) ==
    UNION {generate_word_variations(base_words[i], req.include_leet,
                                    req.include_years, yrs) : i \in DOMAIN base_words}

\* lines 97-99: what the combinations add to `wordlist`
WordCombinations(base_words, req, yrs, seed) ==
    IF req.include_combinations /\ base_words # <<>>
    THEN generate_combinations(Slice(base_words, ComboWords), req.include_leet,
                               req.include_years, yrs, seed)
    ELSE {}

\* the set `wordlist` when the loops are done
Aggregate(req, yrs, seed) ==
    LET base_words == BaseWords(req)
    IN  WordVariations(base_words, req, yrs) \cup WordCombinations(base_words, req, yrs, seed)

\* `if max_words and len(final_wordlist) > max_words`
Truncates(final_wordlist, max_words) ==
    max_words # 0 /\ Len(final_wordlist) > max_words

\* a mutant of LimitSize: _prioritize_words is called whatever the size
LimitSize_AlwaysPrioritized(final_wordlist, max_words, yrs) ==
    prioritize_words(final_wordlist, max_words, yrs)

\* lines 104-108: the size limit
LimitSize(final_wordlist, max_words, yrs) ==
    IF Truncates(final_wordlist, max_words)
    THEN prioritize_words(final_wordlist, max_words, yrs)
    ELSE final_wordlist

generate_wordlist(req, yrs, seed) ==
    LimitSize(sorted(Aggregate(req, yrs, seed)), req.max_words, yrs)

(***************************************************************************)
(* get_wordlist_stats and _analyze_charset_distribution                    *)
(***************************************************************************)
\* c.isalnum()
IsAlnumCh(c) == IsLowerCh(c) \/ IsUpperCh(c) \/ IsDigitCh(c)

\* the five counters of _analyze_charset_distribution
analyze_charset_distribution(wordlist) ==
    LET has_lower(w) == \E i \in DOMAIN w : IsLowerCh(w[i])
        has_upper(w) == \E i \in DOMAIN w : IsUpperCh(w[i])
        has_digit(w) == \E i \in DOMAIN w : IsDigitCh(w[i])
        has_symbol(w) == \E i \in DOMAIN w : ~IsAlnumCh(w[i])
        Count(P(_)) == Cardinality({k \in DOMAIN wordlist : P(wordlist[k])})
    IN  [lowercase_only |-> Count(LAMBDA w : has_lower(w) /\ ~has_upper(w)),
         uppercase_only |-> Count(LAMBDA w : has_upper(w) /\ ~has_lower(w)),
         mixed_case |-> Count(LAMBDA w : has_lower(w) /\ has_upper(w)),
         with_numbers |-> Count(has_digit),
         with_symbols |-> Count(has_symbol)]

\* sum(lengths), over the words lo..hi of the list
RECURSIVE SumLengths(_, _, _)
SumLengths(wordlist, lo, hi) ==
    IF lo > hi THEN 0
    ELSE IF lo = hi THEN Len(wordlist[lo])
    ELSE LET mid == (lo + hi) \div 2
         IN  SumLengths(wordlist, lo, mid) + SumLengths(wordlist, mid + 1, hi)

RECURSIVE GCD(_, _)
GCD(a, b) == IF b = 0 THEN a ELSE GCD(b, a % b)
RECURSIVE IsPowerOfTwo(_)
IsPowerOfTwo(n) == n = 1 \/ (n > 1 /\ n % 2 = 0 /\ IsPowerOfTwo(n \div 2))

\* round(total / n, 2), in hundredths: the values it can have.  A quotient
\* that lies exactly between two hundredths is rounded to the even one when
\* the float holds it exactly (its denominator is a power of two); when the
\* float is only the nearest double, the side it falls on decides, and both
\* neighbours are possible here.
round2(total, n) ==
    LET h == (100 * total) \div n
        r == (100 * total) % n
    IN  IF 2 * r < n THEN {h}
        ELSE IF 2 * r > n THEN {h + 1}
        ELSE IF IsPowerOfTwo(n \div GCD(total, n)) THEN {IF h % 2 = 0 THEN h ELSE h + 1}
        ELSE {h, h + 1}

\* the records get_wordlist_stats can return (avg_length in hundredths); the
\* record of the empty list has no charset_distribution
get_wordlist_stats(wordlist) ==
    IF wordlist = <<>>
    THEN {[total_words |-> 0, avg_length |-> 0, min_length |-> 0, max_length |-> 0,
           unique_words |-> 0]}
    ELSE LET lengths == {Len(wordlist[i]) : i \in DOMAIN wordlist}
         IN  {[total_words |-> Len(wordlist),
               avg_length |-> avg,
               min_length |-> MinOf(lengths),
               max_length |-> MaxOf(lengths),
               unique_words |-> Cardinality(SeqToSet(wordlist)),
               charset_distribution |-> analyze_charset_distribution(wordlist)] :
                  avg \in round2(SumLengths(wordlist, 1, Len(wordlist)), Len(wordlist))}

(***************************************************************************)
(* PasswordAnalyzer (src/password_analyzer.py)                             *)
(***************************************************************************)
\* the words among common_patterns: 'qwerty', 'password', 'admin', 'root', 'user'
common_words ==
    << <<113, 119, 101, 114, 116, 121>>, <<112, 97, 115, 115, 119, 111, 114, 100>>,
       <<97, 100, 109, 105, 110>>, <<114, 111, 111, 116>>, <<117, 115, 101, 114>> >>

\* 'lowercase': 26, 'uppercase': 26, 'digits': 10, 'symbols': 32, 'space': 1
charset_sizes ==
    [lowercase |-> 26, uppercase |-> 26, digits |-> 10, symbols |-> 32, space |-> 1]

\* 'password', '123456', 'password123', 'admin', 'qwerty', 'letmein', 'welcome',
\* 'monkey', 'dragon', 'master', 'hello', 'login', 'pass', 'shadow', 'jordan'
weak_passwords ==
    {<<112, 97, 115, 115, 119, 111, 114, 100>>, <<49, 50, 51, 52, 53, 54>>,
     <<112, 97, 115, 115, 119, 111, 114, 100, 49, 50, 51>>, <<97, 100, 109, 105, 110>>,
     <<113, 119, 101, 114, 116, 121>>, <<108, 101, 116, 109, 101, 105, 110>>,
     <<119, 101, 108, 99, 111, 109, 101>>, <<109, 111, 110, 107, 101, 121>>,
     <<100, 114, 97, 103, 111, 110>>, <<109, 97, 115, 116, 101, 114>>,
     <<104, 101, 108, 108, 111>>, <<108, 111, 103, 105, 110>>, <<112, 97, 115, 115>>,
     <<115, 104, 97, 100, 111, 119>>, <<106, 111, 114, 100, 97, 110>>}

\* 'qwertyuiop', 'asdfghjkl', 'zxcvbnm'
keyboard_rows ==
    << <<113, 119, 101, 114, 116, 121, 117, 105, 111, 112>>,
       <<97, 115, 100, 102, 103, 104, 106, 107, 108>>,
       <<122, 120, 99, 118, 98, 110, 109>> >>

\* math.log2(n) for n = 1..95, in units of 0.00001 bit
Log2Table ==
    << 0, 100000, 158496, 200000, 232193, 258496, 280735, 300000, 316993, 332193, 345943,
       358496, 370044, 380735, 390689, 400000, 408746, 416993, 424793, 432193, 439232,
       445943, 452356, 458496, 464386, 470044, 475489, 480735, 485798, 490689, 495420,
       500000, 504439, 508746, 512928, 516993, 520945, 524793, 528540, 532193, 535755,
       539232, 542626, 545943, 549185, 552356, 555459, 558496, 561471, 564386, 567243,
       570044, 572792, 575489, 578136, 580735, 583289, 585798, 588264, 590689, 593074,
       595420, 597728, 600000, 602237, 604439, 606609, 608746, 610852, 612928, 614975,
       616993, 618982, 620945, 622882, 624793, 626679, 628540, 630378, 632193, 633985,
       635755, 637504, 639232, 640939, 642626, 644294, 645943, 647573, 649185, 650779,
       652356, 653916, 655459, 656986 >>
\* the fixed-point unit of the entropy: 0.00001 bit
EntropyUnit == 100000
log2(n) == Log2Table[n]

\* \s of the regular expressions
IsRegexSpace(c) == c \in (9..13) \cup (28..32)

\* _identify_character_sets: the names of the sets found, in the order of the tests
identify_character_sets(password) ==
    LET has(P(_)) == \E i \in DOMAIN password : P(password[i])
    IN  (IF has(IsLowerCh) THEN <<"lowercase">> ELSE <<>>)
        \o (IF has(IsUpperCh) THEN <<"uppercase">> ELSE <<>>)
        \o (IF has(IsDigitCh) THEN <<"digits">> ELSE <<>>)
        \o (IF has(LAMBDA c : ~IsAlnumCh(c) /\ ~IsRegexSpace(c)) THEN <<"symbols">> ELSE <<>>)
        \o (IF has(LAMBDA c : c = 32) THEN <<"space">> ELSE <<>>)

\* sum(self.charset_sizes[cs] for cs in character_sets)
RECURSIVE charset_size(_)
charset_size(character_sets) ==
    IF character_sets = <<>> THEN 0
    ELSE charset_sizes[Head(character_sets)] + charset_size(Tail(character_sets))

\* the sum of count * log2(count) over the characters `chars` of the password
RECURSIVE CountEntropy(_, _)
CountEntropy(chars, password) ==
    IF chars = {} THEN 0
    ELSE LET c == MinOf(chars)
             count == Cardinality({i \in DOMAIN password : password[i] = c})
         IN  count * log2(count) + CountEntropy(chars \ {c}, password)

\* _calculate_entropy, in units of 0.00001 bit:
\*   basic_entropy = len * log2(charset_size)
\*   shannon_entropy = -sum(p * log2(p)), p = count / len, so that
\*   shannon_entropy * len = len * log2(len) - sum(count * log2(count))
\*   combined_entropy = basic_entropy * 0.7 + shannon_entropy * len * 0.3
calculate_entropy(password, character_sets) ==
    IF password = <<>> \/ character_sets = <<>> THEN 0
    ELSE LET n == Len(password)
             basic_entropy == n * log2(charset_size(character_sets))
             shannon_len == n * log2(n) - CountEntropy(SeqToSet(password), password)
         IN  (7 * basic_entropy + 3 * shannon_len) \div 10

\* round(entropy, 2), in hundredths of a bit
round_entropy(entropy) == (entropy + EntropyUnit \div 200) \div (EntropyUnit \div 100)

\* re.search(r'(.)\1{2,}', password): a character, not a newline, three times in a row
Repetitive(password) ==
    \E i \in 1..(Len(password) - 2) :
        password[i] # 10 /\ password[i + 1] = password[i] /\ password[i + 2] = password[i]

\* row[i:i+3] in password_lower for some i
OnKeyboardRow(row, password_lower) ==
    \E i \in 1..(Len(row) - 2) : Contains(password_lower, SubSeq(row, i, i + 2))

\* re.search(r'(19|20)\d{2}', password)
HasYear(password) ==
    \E i \in 1..(Len(password) - 3) :
        /\ SubSeq(password, i, i + 1) \in {<<49, 57>>, <<50, 48>>}
        /\ DigitsAt(password, i + 2, 2)

\* the keys of leet_patterns: '@', '3', '1', '0', '5', '7'
leet_patterns == {64, 51, 49, 48, 53, 55}

\* _detect_patterns: the messages, in the order they are appended
detect_patterns(password) ==
    LET password_lower == lower(password)
        found(hit, message) == IF hit THEN <<message>> ELSE <<>>
        word(k, message) == found(Contains(password_lower, common_words[k]), message)
    IN  found(\E i \in DOMAIN password_lower : DigitsAt(password_lower, i, 4),
              "Contains pattern: \\d{4}")
        \o found(Contains(password_lower, <<49, 50, 51>>), "Contains pattern: 123+")
        \o found(Contains(password_lower, <<97, 98, 99>>), "Contains pattern: abc+")
        \o word(1, "Contains pattern: qwerty")
        \o word(2, "Contains pattern: password")
        \o word(3, "Contains pattern: admin")
        \o word(4, "Contains pattern: root")
        \o word(5, "Contains pattern: user")
        \o found(Repetitive(password), "Repetitive characters")
        \o found(OnKeyboardRow(keyboard_rows[1], password_lower), "Keyboard pattern detected")
        \o found(OnKeyboardRow(keyboard_rows[2], password_lower), "Keyboard pattern detected")
        \o found(OnKeyboardRow(keyboard_rows[3], password_lower), "Keyboard pattern detected")
        \o found(\E i \in DOMAIN password : password[i] \in leet_patterns,
                 "Leetspeak substitutions detected")
        \o found(HasYear(password), "Contains year")
        \o found(password_lower \in weak_passwords, "Common weak password")

\* one point of the score, in the unit the score is computed in: entropy / 4
\* is then the entropy in its own unit
ScorePoint == 4 * EntropyUnit

\* the float `score` of _calculate_strength_score before it is cut to 0..100,
\* in units of 1 / ScorePoint
raw_score(length, character_sets, entropy, patterns, password) ==
    LET length_score ==
            IF length >= 12 THEN 40
            ELSE IF length >= 8 THEN 30
            ELSE IF length >= 6 THEN 20
            ELSE length * 2
        \* len(character_sets) * 7.5, at most 30
        charset_score ==
            IF (Len(character_sets) * 15 * ScorePoint) \div 2 < 30 * ScorePoint
            THEN (Len(character_sets) * 15 * ScorePoint) \div 2
            ELSE 30 * ScorePoint
        entropy_bonus ==
            IF entropy >= 60 * EntropyUnit THEN 20 * ScorePoint
            ELSE IF entropy >= 40 * EntropyUnit THEN 15 * ScorePoint
            ELSE IF entropy >= 25 * EntropyUnit THEN 10 * ScorePoint
            ELSE entropy
        pattern_penalty == Len(patterns) * 5
        weak_penalty == IF lower(password) \in weak_passwords THEN 30 ELSE 0
    IN  length_score * ScorePoint + charset_score + entropy_bonus
        - pattern_penalty * ScorePoint - weak_penalty * ScorePoint

\* int(score): towards zero
int(score) == IF score >= 0 THEN score \div ScorePoint ELSE -((-score) \div ScorePoint)

\* a mutant of calculate_strength_score: the score is not raised to 0
calculate_strength_score_NoFloor(length, character_sets, entropy, patterns, password) ==
    LET score == int(raw_score(length, character_sets, entropy, patterns, password))
    IN  IF score < 100 THEN score ELSE 100

\* max(0, min(100, int(score)))
calculate_strength_score(length, character_sets, entropy, patterns, password) ==
    LET score == int(raw_score(length, character_sets, entropy, patterns, password))
        capped == IF score < 100 THEN score ELSE 100
    IN  IF capped > 0 THEN capped ELSE 0

get_strength_level(score) ==
    IF score >= 80 THEN "Very Strong"
    ELSE IF score >= 60 THEN "Strong"
    ELSE IF score >= 40 THEN "Moderate"
    ELSE IF score >= 20 THEN "Weak"
    ELSE "Very Weak"

\* `name in character_sets`, `message in patterns`
In(x, list) == \E i \in DOMAIN list : list[i] = x

generate_recommendations(length, character_sets, patterns, password) ==
    LET advice(hit, message) == IF hit THEN <<message>> ELSE <<>>
        recommendations ==
            (IF length < 8 THEN <<"Use at least 8 characters (12+ recommended)">>
             ELSE IF length < 12
             THEN <<"Consider using 12+ characters for better security">>
             ELSE <<>>)
            \o advice(~In("uppercase", character_sets), "Add uppercase letters")
            \o advice(~In("lowercase", character_sets), "Add lowercase letters")
            \o advice(~In("digits", character_sets), "Add numbers")
            \o advice(~In("symbols", character_sets), "Add special characters (!@#$%^&*)")
            \o advice(patterns # <<>>, "Avoid predictable patterns")
            \o advice(In("Keyboard pattern detected", patterns),
                      "Avoid keyboard patterns (qwerty, asdf, etc.)")
            \o advice(In("Repetitive characters", patterns), "Avoid repetitive characters")
            \o advice(In("Contains year", patterns), "Avoid using years or dates")
            \o advice(lower(password) \in weak_passwords, "Avoid common passwords")
    IN  IF recommendations = <<>>
        THEN <<"Your password is strong! Consider using a password manager.">>
        ELSE recommendations

\* analyze_password: the record it returns, but for time_to_crack (a float
\* power of two turned into text); entropy is in hundredths of a bit
analyze_password(password) ==
    IF password = <<>>
    THEN [strength_score |-> 0, strength_level |-> "Very Weak", entropy |-> 0,
          length |-> 0, character_sets |-> <<>>, patterns_found |-> <<>>,
          recommendations |-> <<"Password cannot be empty">>]
    ELSE LET length == Len(password)
             character_sets == identify_character_sets(password)
             entropy == calculate_entropy(password, character_sets)
             patterns == detect_patterns(password)
             strength_score ==
                 calculate_strength_score(length, character_sets, entropy, patterns, password)
         IN  [strength_score |-> strength_score,
              strength_level |-> get_strength_level(strength_score),
              entropy |-> round_entropy(entropy),
              length |-> length,
              character_sets |-> character_sets,
              patterns_found |-> patterns,
              recommendations |->
                  generate_recommendations(length, character_sets, patterns, password)]

(***************************************************************************)
(* The program as a state machine: a WordlistGenerator instance lives in a *)
(* process with a hash seed, the wall clock shows a year, and a caller     *)
(* calls generate_wordlist and then get_wordlist_stats.                    *)
(***************************************************************************)
VARIABLES
    clock,          \* datetime.now().year
    hashseed,       \* the hash salt of the process the instance lives in
    years,          \* self.years of the instance
    request,        \* the keyword arguments of the last call
    pc,             \* "idle", "generated" (generate_wordlist returned), "reported",
                    \* "raised" (generate_wordlist raised an exception)
    final_wordlist, \* the sorted aggregate of the last call, before the size limit
    wordlist,       \* what the last call of generate_wordlist returned
    stats,          \* what get_wordlist_stats returned for it
    returned,       \* one record per finished call: its arguments, self.years, its result
    calls,          \* the calls of generate_wordlist in progress on the instance, by
                    \* caller: the position and the local variables of each
    applied         \* a method applied on its own: its name, arguments and result

vars ==
    <<clock, hashseed, years, request, pc, final_wordlist, wordlist, stats, returned,
      calls, applied>>

\* the year the clock shows when the first instance is made
StartYear == 2026
MaxClockTicks == 1
MaxHashSeed == 1
MaxCalls == 2
MaxNames == 2

\* seeds a caller may pass: "a", "DOG"
NamePool == {<<97>>, <<68, 79, 71>>}
\* "a", " "
PetPool == {<<97>>, <<32>>}
\* "!!"
InterestPool == {<<33, 33>>}
\* "1/2/1990"
DatePool == {<<49, 47, 50, 47, 49, 57, 57, 48>>}
\* the default is 10000; negative values are among AnyMaxWords
MaxWordsPool == {0, 7, 10000}

SeqsUpTo(S, n) == UNION {[1..k -> S] : k \in 0..n}
AtMostOne(S) == SeqsUpTo(S, 1)

\* the keyword arguments but max_words
Inputs ==
    [names : SeqsUpTo(NamePool, MaxNames),
     pets : AtMostOne(PetPool),
     interests : AtMostOne(InterestPool),
     dates : AtMostOne(DatePool),
     include_years : BOOLEAN,
     include_leet : BOOLEAN,
     include_combinations : BOOLEAN]

WithMaxWords(inp, mw) ==
    [names |-> inp.names, pets |-> inp.pets, interests |-> inp.interests,
     dates |-> inp.dates, include_years |-> inp.include_years,
     include_leet |-> inp.include_leet,
     include_combinations |-> inp.include_combinations, max_words |-> mw]

\* kwargs.get(..., default) of a call without arguments
NoRequest ==
    [names |-> <<>>, pets |-> <<>>, interests |-> <<>>, dates |-> <<>>,
     include_years |-> TRUE, include_leet |-> TRUE, include_combinations |-> TRUE,
     max_words |-> 10000]

NoStats == [total_words |-> -1, min_length |-> -1, max_length |-> -1, unique_words |-> -1]

\* the callers that may be inside generate_wordlist at the same time
MaxCallers == 2
Callers == 1..MaxCallers
\* a caller that has not called yet
NoCall ==
    [pc |-> "idle", request |-> NoRequest, base_words |-> <<>>, wordlist |-> {},
     result |-> <<>>, overlapped |-> FALSE]
\* no method has been applied on its own
NotApplied == [fn |-> "", args |-> <<>>, done |-> FALSE, result |-> <<>>]

\* a fresh instance, WordlistGenerator(), and nothing called on it yet
Fresh ==
    /\ clock = StartYear
    /\ years = YearWindow(clock)
    /\ request = NoRequest
    /\ pc = "idle"
    /\ final_wordlist = <<>>
    /\ wordlist = <<>>
    /\ stats = NoStats
    /\ returned = <<>>
    /\ calls = [c \in Callers |-> NoCall]

\* a fresh instance in a process with some hash seed
Init ==
    /\ Fresh
    /\ hashseed \in 0..MaxHashSeed
    /\ applied = NotApplied

\* a mutant of Call: `wordlist` is a list, not a set; the variations of every
\* base word are appended to it
RECURSIVE ListOfVariations(_, _, _)
ListOfVariations(base_words, inp, yrs) ==
    IF base_words = <<>> THEN <<>>
    ELSE sorted(generate_word_variations(Head(base_words), inp.include_leet,
                                         inp.include_years, yrs))
         \o ListOfVariations(Tail(base_words), inp, yrs)
Call_ListNotSet(inputs, mws) ==
    /\ pc = "idle"
    /\ \E inp \in inputs :
          /\ final_wordlist' = ListOfVariations(BaseWords(inp), inp, years)
          /\ \E mw \in mws :
                /\ request' = WithMaxWords(inp, mw)
                /\ IF Truncates(final_wordlist', mw) /\ prioritize_raises(final_wordlist')
                   THEN /\ pc' = "raised"
                        /\ UNCHANGED <<wordlist, returned>>
                   ELSE /\ pc' = "generated"
                        /\ wordlist' = LimitSize(final_wordlist', mw, years)
                        /\ returned' = Append(returned,
                                              [request |-> request', years |-> years,
                                               wordlist |-> wordlist'])
    /\ UNCHANGED <<clock, hashseed, years, stats, calls, applied>>

\* generator.generate_wordlist(**kwargs), the arguments taken from inputs and
\* max_words from mws; the call returns a list or raises
Call(inputs, mws) ==
    /\ pc = "idle"
    /\ \E inp \in inputs :
          /\ final_wordlist' = sorted(Aggregate(inp, years, hashseed))
          /\ \E mw \in mws :
                /\ request' = WithMaxWords(inp, mw)
                /\ IF Truncates(final_wordlist', mw) /\ prioritize_raises(final_wordlist')
                   THEN /\ pc' = "raised"
                        /\ UNCHANGED <<wordlist, returned>>
                   ELSE /\ pc' = "generated"
                        /\ wordlist' = LimitSize(final_wordlist', mw, years)
                        /\ returned' = Append(returned,
                                              [request |-> request', years |-> years,
                                               wordlist |-> wordlist'])
    /\ UNCHANGED <<clock, hashseed, years, stats, calls, applied>>

GenerateWordlist == Call(Inputs, MaxWordsPool)

\* generator.get_wordlist_stats(wordlist)
GetWordlistStats ==
    /\ pc = "generated"
    /\ stats' \in get_wordlist_stats(wordlist)
    /\ pc' = "reported"
    /\ UNCHANGED <<clock, hashseed, years, request, final_wordlist, wordlist, returned,
                   calls, applied>>

\* one call and its report
Next == GenerateWordlist \/ GetWordlistStats

Spec == Init /\ [][Next]_vars

(***************************************************************************)
(* The same request over several runs of the program                       *)
(***************************************************************************)
\* names "a" and "DOG", with and without the date "1/2/1990" (with it the
\* first five base words are five different tokens: a, DOG, 1990, 1, 2)
RunInputs ==
    {inp \in Inputs : /\ inp.names = << <<97>>, <<68, 79, 71>> >>
                      /\ inp.pets = <<>>
                      /\ inp.interests = <<>>
                      /\ ~inp.include_leet
                      /\ inp.include_combinations}
RunMaxWords == {7, 10000}

FirstCall ==
    /\ returned = <<>>
    /\ Call(RunInputs, RunMaxWords)

\* the caller calls again with the arguments of its last call
RepeatedCall ==
    /\ returned # <<>>
    /\ Len(returned) < MaxCalls
    /\ Call({request}, {request.max_words})

\* the program is started again: WordlistGenerator() in a new process
NewGenerator ==
    /\ pc \in {"generated", "reported"}
    /\ Len(returned) < MaxCalls
    /\ \E seed \in 0..MaxHashSeed : hashseed' = seed
    /\ years' = YearWindow(clock)
    /\ pc' = "idle"
    /\ stats' = NoStats
    /\ UNCHANGED <<clock, request, final_wordlist, wordlist, returned, calls, applied>>

\* new year's eve
ClockTick ==
    /\ clock < StartYear + MaxClockTicks
    /\ clock' = clock + 1
    /\ UNCHANGED <<hashseed, years, request, pc, final_wordlist, wordlist, stats, returned,
                   calls, applied>>

NextRuns == FirstCall \/ RepeatedCall \/ GetWordlistStats \/ NewGenerator \/ ClockTick

SpecRuns == Init /\ [][NextRuns]_vars

(***************************************************************************)
(* Calls with malformed arguments                                          *)
(***************************************************************************)
\* "!@" (symbols only), "ab"
MalformedNames == {<<33, 64>>, <<97, 98>>}
\* " " (blank), "@"
MalformedPets == {<<32>>, <<64>>}
\* ""
MalformedInterests == {<<>>}
\* "1/2/199" (no pattern matches), "x1990" (a year among other text)
MalformedDates == {<<49, 47, 50, 47, 49, 57, 57>>, <<120, 49, 57, 57, 48>>}
\* max_words is any integer
AnyMaxWords == {-1, 0, 2, 10000}

MalformedInputs ==
    [names : SeqsUpTo(MalformedNames, MaxNames),
     pets : AtMostOne(MalformedPets),
     interests : AtMostOne(MalformedInterests),
     dates : AtMostOne(MalformedDates),
     include_years : BOOLEAN,
     include_leet : BOOLEAN,
     include_combinations : BOOLEAN]

MalformedCall == Call(MalformedInputs, AnyMaxWords)

SpecMalformed == Init /\ [][MalformedCall]_vars

(***************************************************************************)
(* Calls of generate_wordlist interleaved on one instance: every caller    *)
(* has its own kwargs, base_words and wordlist; all of them read the       *)
(* fields of the one instance.  The tables that __init__ fills and no      *)
(* method assigns (common_numbers, prefixes, suffixes, leet_substitutions, *)
(* separators) are the definitions above; self.years is the variable.      *)
(***************************************************************************)
\* the name "DOG" and at most 7 words, or the names "a" and "DOG" and at most
\* 10000; the years and the combinations, no leetspeak
InterleavedRequests ==
    {WithMaxWords(inp, mw) :
        <<inp, mw>> \in {<<inp, mw>> \in Inputs \X RunMaxWords :
                            /\ \/ inp.names = << <<68, 79, 71>> >> /\ mw = 7
                               \/ inp.names = << <<97>>, <<68, 79, 71>> >> /\ mw = 10000
                            /\ inp.pets = <<>>
                            /\ inp.interests = <<>>
                            /\ inp.dates = <<>>
                            /\ inp.include_years
                            /\ ~inp.include_leet
                            /\ inp.include_combinations}}

\* another caller is inside generate_wordlist
OthersInside(c) ==
    \E d \in Callers \ {c} : calls[d].pc \in {"variations", "combinations", "limit"}

OneInstance ==
    UNCHANGED <<clock, hashseed, years, request, pc, final_wordlist, wordlist, stats,
                returned, applied>>

\* lines 67-86: the kwargs are read and base_words is built
Begin(c) ==
    /\ calls[c].pc = "idle"
    /\ \E req \in InterleavedRequests :
          calls' = [calls EXCEPT ![c] =
                       [pc |-> "variations", request |-> req,
                        base_words |-> BaseWords(req), wordlist |-> {},
                        result |-> <<>>, overlapped |-> OthersInside(c)]]
    /\ OneInstance

\* lines 89-94: the variations of every base word
ExpandWords(c) ==
    /\ calls[c].pc = "variations"
    /\ calls' = [calls EXCEPT
                    ![c].wordlist = @ \cup WordVariations(calls[c].base_words,
                                                          calls[c].request, years),
                    ![c].overlapped = @ \/ OthersInside(c),
                    ![c].pc = "combinations"]
    /\ OneInstance

\* a mutant of Combine: the call shortens self.years to the years it uses
Combine_TrimsYears(c) ==
    /\ calls[c].pc = "combinations"
    /\ calls' = [calls EXCEPT
                    ![c].wordlist = @ \cup WordCombinations(calls[c].base_words,
                                                            calls[c].request, years, hashseed),
                    ![c].overlapped = @ \/ OthersInside(c),
                    ![c].pc = "limit"]
    /\ years' = SubSeq(years, 1, ComboYears)
    /\ UNCHANGED <<clock, hashseed, request, pc, final_wordlist, wordlist, stats,
                   returned, applied>>

\* lines 97-99: the combinations
Combine(c) ==
    /\ calls[c].pc = "combinations"
    /\ calls' = [calls EXCEPT
                    ![c].wordlist = @ \cup WordCombinations(calls[c].base_words,
                                                            calls[c].request, years, hashseed),
                    ![c].overlapped = @ \/ OthersInside(c),
                    ![c].pc = "limit"]
    /\ OneInstance

\* lines 102-108: the set is sorted, cut to max_words and returned
Finish(c) ==
    /\ calls[c].pc = "limit"
    /\ LET final == sorted(calls[c].wordlist)
       IN  calls' = [calls EXCEPT
                        ![c].result = IF Truncates(final, calls[c].request.max_words)
                                         /\ prioritize_raises(final)
                                      THEN <<>>
                                      ELSE LimitSize(final, calls[c].request.max_words, years),
                        ![c].overlapped = @ \/ OthersInside(c),
                        ![c].pc = IF Truncates(final, calls[c].request.max_words)
                                     /\ prioritize_raises(final)
                                  THEN "raised" ELSE "returned"]
    /\ OneInstance

NextInterleaved == \E c \in Callers : Begin(c) \/ ExpandWords(c) \/ Combine(c) \/ Finish(c)

SpecInterleaved == Init /\ [][NextInterleaved]_vars

(***************************************************************************)
(* Calls whose result is cut, or just not cut                              *)
(***************************************************************************)
\* one name at most and the pet "b" or none, with every choice of the flags
OrderInputs ==
    [names : AtMostOne(NamePool),
     pets : AtMostOne({<<98>>}),
     interests : {<<>>},
     dates : {<<>>},
     include_years : BOOLEAN,
     include_leet : BOOLEAN,
     include_combinations : BOOLEAN]
\* limits below, at and above the size of an aggregate: a name without
\* years and leetspeak forms gives 101 words
OrderMaxWords == {-1, 1, 7, 100, 101, 10000}

OrderedCall == Call(OrderInputs, OrderMaxWords)

SpecOrder == Init /\ [][OrderedCall]_vars

(***************************************************************************)
(* The private methods applied on their own.  The arguments are drawn      *)
(* when the instance is made, the action applies the method to them.       *)
(***************************************************************************)
\* the method and its arguments, not yet applied
ToApply(fn, args) == [fn |-> fn, args |-> args, done |-> FALSE, result |-> <<>>]
\* `fn` has been applied and has returned
Applied(fn) == applied.fn = fn /\ applied.done
\* what a step that only applies a method leaves alone
InstanceUntouched ==
    UNCHANGED <<clock, hashseed, years, request, pc, final_wordlist, wordlist, stats,
                returned, calls>>

\* tokens a list may hold: "a", "b", "c", "1", "DOG", "!!"
TokenPool == << <<97>>, <<98>>, <<99>>, <<49>>, <<68, 79, 71>>, <<33, 33>> >>
MaxTokens == 5
\* the lists of up to MaxTokens tokens: every list of one or two tokens, and
\* the longer ones with their tokens in the order of the pool
TokenLists ==
    {[i \in DOMAIN ix |-> TokenPool[ix[i]]] :
        ix \in {ix \in SeqsUpTo(DOMAIN TokenPool, MaxTokens) :
                   Len(ix) <= 2 \/ \A i \in 1..(Len(ix) - 1) : ix[i] <= ix[i + 1]}}

InitCombinations ==
    /\ Fresh
    /\ hashseed \in 0..MaxHashSeed
    /\ \E words \in TokenLists, include_leet \in BOOLEAN, include_years \in BOOLEAN :
          applied = ToApply("_generate_combinations",
                            [words |-> words, include_leet |-> include_leet,
                             include_years |-> include_years])

\* self._generate_combinations(words, include_leet, include_years)
GenerateCombinations ==
    /\ applied.fn = "_generate_combinations"
    /\ ~applied.done
    /\ applied' = [applied EXCEPT
                      !.done = TRUE,
                      !.result = generate_combinations(applied.args.words,
                                                       applied.args.include_leet,
                                                       applied.args.include_years,
                                                       years, hashseed)]
    /\ InstanceUntouched

SpecCombinations == InitCombinations /\ [][GenerateCombinations]_vars

\* pieces a password is put together from: "password", "admin", "abc", "123",
\* "qwe", "aaa", "A", "!", " ", "2024"
PasswordPieces ==
    << <<112, 97, 115, 115, 119, 111, 114, 100>>,
       <<97, 100, 109, 105, 110>>,
       <<97, 98, 99>>,
       <<49, 50, 51>>,
       <<113, 119, 101>>,
       <<97, 97, 97>>,
       <<65>>,
       <<33>>,
       <<32>>,
       <<50, 48, 50, 52>> >>
MaxPasswordPieces == 3
RECURSIVE Concat(_)
Concat(pieces) == IF pieces = <<>> THEN <<>> ELSE Head(pieces) \o Concat(Tail(pieces))
Passwords ==
    {Concat([i \in DOMAIN ix |-> PasswordPieces[ix[i]]]) :
        ix \in SeqsUpTo(DOMAIN PasswordPieces, MaxPasswordPieces)}

InitPassword ==
    /\ Fresh
    /\ hashseed = 0
    /\ \E password \in Passwords : applied = ToApply("analyze_password", password)

\* analyzer.analyze_password(password)
AnalyzePassword ==
    /\ applied.fn = "analyze_password"
    /\ ~applied.done
    /\ applied' = [applied EXCEPT !.done = TRUE, !.result = analyze_password(applied.args)]
    /\ InstanceUntouched

SpecPassword == InitPassword /\ [][AnalyzePassword]_vars

\* the characters a seed is written with: a, B, 1, _, ! and the blank
SeedAlphabet == {97, 66, 49, 95, 33, 32}
MaxSeedLen == 3
\* "Testing": a seed of more than LeetProductMaxLen characters
LongSeeds == {<<84, 101, 115, 116, 105, 110, 103>>}
SeedWords == SeqsUpTo(SeedAlphabet, MaxSeedLen) \cup LongSeeds

InitVariations ==
    /\ Fresh
    /\ hashseed = 0
    /\ \E word \in SeedWords, include_leet \in BOOLEAN, include_years \in BOOLEAN :
          applied = ToApply("_generate_word_variations",
                            [word |-> word, include_leet |-> include_leet,
                             include_years |-> include_years])

\* self._generate_word_variations(word, include_leet, include_years)
GenerateWordVariations ==
    /\ applied.fn = "_generate_word_variations"
    /\ ~applied.done
    /\ applied' = [applied EXCEPT
                      !.done = TRUE,
                      !.result = generate_word_variations(applied.args.word,
                                                          applied.args.include_leet,
                                                          applied.args.include_years, years)]
    /\ InstanceUntouched

SpecVariations == InitVariations /\ [][GenerateWordVariations]_vars

\* date strings: "12/15/1990", "1990", "1-2-1990", "1990-12-15", "12.15.1990",
\* " ", "", "12/15/90", "x", " 5/6/2000 ", "19901991", "1/2/1990 3-4-2001",
\* "Jan 1990", "1990-1-2"
DateStrings ==
    {
       <<49, 50, 47, 49, 53, 47, 49, 57, 57, 48>>,
       <<49, 57, 57, 48>>,
       <<49, 45, 50, 45, 49, 57, 57, 48>>,
       <<49, 57, 57, 48, 45, 49, 50, 45, 49, 53>>,
       <<49, 50, 46, 49, 53, 46, 49, 57, 57, 48>>,
       <<32>>,
       <<>>,
       <<49, 50, 47, 49, 53, 47, 57, 48>>,
       <<120>>,
       <<32, 53, 47, 54, 47, 50, 48, 48, 48, 32>>,
       <<49, 57, 57, 48, 49, 57, 57, 49>>,
       <<49, 47, 50, 47, 49, 57, 57, 48, 32, 51, 45, 52, 45, 50, 48, 48, 49>>,
       <<74, 97, 110, 32, 49, 57, 57, 48>>,
       <<49, 57, 57, 48, 45, 49, 45, 50>> }
MaxDates == 2

InitDates ==
    /\ Fresh
    /\ hashseed = 0
    /\ \E dates \in SeqsUpTo(DateStrings, MaxDates) : applied = ToApply("_process_dates", dates)

\* self._process_dates(dates)
ProcessDates ==
    /\ applied.fn = "_process_dates"
    /\ ~applied.done
    /\ applied' = [applied EXCEPT !.done = TRUE, !.result = process_dates(applied.args)]
    /\ InstanceUntouched

SpecDates == InitDates /\ [][ProcessDates]_vars

\* the characters of the words given to the leetspeak method: a and t have
\* substitutes, x and 1 have none
LeetAlphabet == {97, 116, 120, 49}
MaxLeetLen == 7

\* longer words: "illinois", "xaeiostlgb", "aeiostlgb", "bbbbbbb", "1234567", "billing", "Testing"
LongLeetWords ==
    { <<105, 108, 108, 105, 110, 111, 105, 115>>,
      <<120, 97, 101, 105, 111, 115, 116, 108, 103, 98>>,
      <<97, 101, 105, 111, 115, 116, 108, 103, 98>>,
      <<98, 98, 98, 98, 98, 98, 98>>,
      <<49, 50, 51, 52, 53, 54, 55>>,
      <<98, 105, 108, 108, 105, 110, 103>>,
      <<84, 101, 115, 116, 105, 110, 103>> }

InitLeet ==
    /\ Fresh
    /\ hashseed = 0
    /\ \E word \in SeqsUpTo(LeetAlphabet, MaxLeetLen) \cup LongLeetWords :
          applied = ToApply("_generate_leet_variations", word)

\* self._generate_leet_variations(word)
GenerateLeetVariations ==
    /\ applied.fn = "_generate_leet_variations"
    /\ ~applied.done
    /\ applied' = [applied EXCEPT !.done = TRUE,
                                  !.result = generate_leet_variations(applied.args)]
    /\ InstanceUntouched

SpecLeet == InitLeet /\ [][GenerateLeetVariations]_vars

\* the characters of the words that are scored: a, B, 1, 3, ! and @
ScoreAlphabet == {97, 66, 49, 51, 33, 64}
MaxScoreLen == 3
\* longer words: "buddy1976", "Buddy!!", "buddy2024", "x1985y1976", "Buddy"
\* "BUDDY", "b@dd7", "1035710357", "abcdefghijklmnopqrstuvwxyz"
LongScoreWords ==
    { <<98, 117, 100, 100, 121, 49, 57, 55, 54>>,
      <<66, 117, 100, 100, 121, 33, 33>>,
      <<98, 117, 100, 100, 121, 50, 48, 50, 52>>,
      <<120, 49, 57, 56, 53, 121, 49, 57, 55, 54>>,
      <<66, 117, 100, 100, 121>>,
      <<66, 85, 68, 68, 89>>,
      <<98, 64, 100, 100, 55>>,
      <<49, 48, 51, 53, 55, 49, 48, 51, 53, 55>>,
      <<97, 98, 99, 100, 101, 102, 103, 104, 105, 106, 107, 108, 109, 110, 111, 112, 113, 114, 115, 116, 117, 118, 119, 120, 121, 122>> }
\* the words of a list are never empty (see prioritize_raises)
ScoreWords == (SeqsUpTo(ScoreAlphabet, MaxScoreLen) \ {<<>>}) \cup LongScoreWords

InitScore ==
    /\ Fresh
    /\ hashseed = 0
    /\ \E word \in ScoreWords : applied = ToApply("word_score", word)

\* word_score(word), the function _prioritize_words ranks the words with
WordScore ==
    /\ applied.fn = "word_score"
    /\ ~applied.done
    /\ applied' = [applied EXCEPT !.done = TRUE, !.result = word_score(applied.args, years)]
    /\ InstanceUntouched

SpecScore == InitScore /\ [][WordScore]_vars

(***************************************************************************)
(* Properties                                                              *)
(***************************************************************************)
\* a call of generate_wordlist has returned `wordlist`
Returned == pc \in {"generated", "reported"}
Words == SeqToSet(wordlist)
\* the last call cut its aggregate down with _prioritize_words
Truncated == Truncates(final_wordlist, request.max_words)
\* the seeds of the three word lists, in the order the generator reads them
Seeds(req) == req.names \o req.pets \o req.interests

\* C1: every word of the list generate_wordlist returns has at least 3
\* characters, the words of the combination synthesizer included.
C1_LengthInvariant ==
    Returned => \A i \in DOMAIN wordlist : Len(wordlist[i]) >= MinWordLen

\* C2: the list generate_wordlist returns never holds a string twice, be it
\* the whole aggregate or the list cut down by _prioritize_words, also when a
\* seed is passed several times or in several categories.
C2_NoDuplicates ==
    Returned => Cardinality(Words) = Len(wordlist)

\* the seed "a" is passed twice as a name and once as a pet, and the list was
\* cut down to 7 words
C2_Witness ==
    /\ pc = "generated"
    /\ request.names = << <<97>>, <<97>> >>
    /\ request.pets = << <<97>> >>
    /\ Truncated
    /\ Len(wordlist) = 7

\* C3: two calls with the same arguments and the same reference year (the
\* same self.years) return the same list, whatever the order in which the
\* combination set is iterated when it is cut to 1000 entries.
C3_Determinism ==
    \A i, j \in DOMAIN returned :
        (returned[i].request = returned[j].request /\ returned[i].years = returned[j].years)
            => returned[i].wordlist = returned[j].wordlist

Score(w) == word_score(w, years)

\* C4: when the aggregate has more than max_words entries (max_words >= 1),
\* the result has exactly max_words entries and no discarded word of the
\* aggregate scores more than a retained word.
C4_Truncation ==
    (pc = "generated" /\ request.max_words >= 1 /\ Len(final_wordlist) > request.max_words)
        => /\ Len(wordlist) = request.max_words
           /\ \A i \in DOMAIN wordlist : wordlist[i] \in SeqToSet(final_wordlist)
           /\ LET lowest == MinOf({Score(wordlist[i]) : i \in DOMAIN wordlist})
              IN  \A k \in DOMAIN final_wordlist :
                      final_wordlist[k] \notin Words => Score(final_wordlist[k]) <= lowest

\* more than 1000 words were cut down to 7, a discarded word scores less than
\* every retained one and another one scores as much as a retained one
C4_Witness ==
    /\ pc = "generated"
    /\ request.max_words = 7
    /\ Len(final_wordlist) > 1000
    /\ Len(wordlist) = 7
    /\ \E k \in DOMAIN final_wordlist :
          /\ final_wordlist[k] \notin Words
          /\ \A i \in DOMAIN wordlist : Score(final_wordlist[k]) < Score(wordlist[i])
    /\ \E k \in DOMAIN final_wordlist :
          /\ final_wordlist[k] \notin Words
          /\ Score(final_wordlist[k]) = Score(wordlist[7])

\* C5: for every integer max_words, 0 and the negative ones included, the
\* returned list has at most max(max_words, 0) entries.
C5_ResultCeiling ==
    Returned =>
        Len(wordlist) <= (IF request.max_words > 0 THEN request.max_words ELSE 0)

\* no seed of the request holds a word character, and no date fragment is
\* extracted
NoUsableSeed(req) ==
    /\ \A i \in DOMAIN Seeds(req) :
          \A k \in DOMAIN Seeds(req)[i] : ~IsWordCh(Seeds(req)[i][k])
    /\ process_dates(req.dates) = <<>>

\* C6: with four empty seed lists, or with seeds that are all blank or
\* normalize to the empty string and no date fragment, generate_wordlist
\* returns the empty list and get_wordlist_stats reports total_words = 0.
C6_EmptyInput ==
    /\ (Returned /\ NoUsableSeed(request)) => wordlist = <<>>
    /\ (pc = "reported" /\ NoUsableSeed(request)) => stats.total_words = 0

\* the blank pet " " and the interest "!!" are the only seeds
C6_Witness ==
    /\ pc = "reported"
    /\ request.names = <<>>
    /\ request.pets = << <<32>> >>
    /\ request.interests = << <<33, 33>> >>
    /\ request.dates = <<>>
    /\ request.include_combinations
    /\ stats.total_words = 0

\* a request with one seed, whose token has at least 3 characters, and the
\* three switches off
SingleSeed(req) ==
    /\ Len(Seeds(req)) = 1
    /\ req.dates = <<>>
    /\ Len(Clean(Seeds(req)[1])) >= 3
    /\ ~req.include_years /\ ~req.include_leet /\ ~req.include_combinations

\* the first character upper-cased, nothing else changed
UpperFirst(s) == [i \in DOMAIN s |-> IF i = 1 THEN UpperCh(s[i]) ELSE s[i]]

\* C7: for a single seed with token n of at least 3 characters, the three
\* switches off and no truncation, the result holds n, Capitalized(n),
\* UPPER(n), n1, n12, n123, 1n, myn and n!, and no word under 3 characters.
C7_ScenarioA ==
    (pc = "generated" /\ SingleSeed(request) /\ ~Truncated) =>
        LET n == Clean(Seeds(request)[1])
        IN  /\ {n, UpperFirst(n), upper(n), n \o <<49>>, n \o <<49, 50>>,
                n \o <<49, 50, 51>>, <<49>> \o n, <<109, 121>> \o n,
                n \o <<33>>} \subseteq Words
            /\ \A w \in Words : Len(w) >= 3

\* the seed "DOG" alone: the result holds "dog", "Dog" and "DOG"
C7_Witness ==
    /\ pc = "generated"
    /\ request.names = << <<68, 79, 71>> >>
    /\ SingleSeed(request)
    /\ request.max_words = 10000
    /\ {<<100, 111, 103>>, <<68, 111, 103>>, <<68, 79, 71>>} \subseteq Words

\* a request with two seeds, of different non-empty tokens, and combinations on
TwoSeeds(req) ==
    /\ Len(Seeds(req)) = 2
    /\ req.dates = <<>>
    /\ Clean(Seeds(req)[1]) # <<>>
    /\ Clean(Seeds(req)[2]) # <<>>
    /\ Clean(Seeds(req)[1]) # Clean(Seeds(req)[2])
    /\ req.include_combinations

\* a_b, its capitalized form (only the first character upper) and a_b123
UnderscoreForms(a, b) ==
    LET combo == a \o <<95>> \o b
    IN  {combo, UpperFirst(lower(combo)), combo \o <<49, 50, 51>>}

\* C8: for two seeds with different non-empty tokens a and b, combinations on
\* and no truncation, the result holds a_b, the capitalized form of the whole
\* combination (the second token not capitalized) and a_b123, and the same
\* with a and b swapped.
C8_ScenarioB ==
    (pc = "generated" /\ TwoSeeds(request) /\ ~Truncated) =>
        LET a == Clean(Seeds(request)[1])
            b == Clean(Seeds(request)[2])
        IN  /\ UnderscoreForms(a, b) \subseteq Words
            /\ UnderscoreForms(b, a) \subseteq Words

\* the names "a" and "DOG": "a_dog", "A_dog", "dog_a", "Dog_a" and "dog_a123"
\* are in the result, "A_Dog" and "Dog_A" are not
C8_Witness ==
    /\ pc = "generated"
    /\ request.names = << <<97>>, <<68, 79, 71>> >>
    /\ TwoSeeds(request)
    /\ ~Truncated
    /\ {<<97, 95, 100, 111, 103>>, <<65, 95, 100, 111, 103>>, <<100, 111, 103, 95, 97>>,
        <<68, 111, 103, 95, 97>>, <<100, 111, 103, 95, 97, 49, 50, 51>>} \subseteq Words
    /\ <<65, 95, 68, 111, 103>> \notin Words
    /\ <<68, 111, 103, 95, 65>> \notin Words

\* the base words that have a non-empty token, and their tokens
Tokens(req) ==
    {Clean(BaseWords(req)[i]) : i \in DOMAIN BaseWords(req)} \ {<<>>}
\* first character upper-cased, every other character lower-cased
ProperCap(s) == UpperFirst(lower(s))
UpperCount(w) == Cardinality({i \in DOMAIN w : IsUpperCh(w[i])})
\* with at most four base words the combination set stays under its cap
FewBaseWords(req) == Len(BaseWords(req)) <= 4

\* the capitalized forms the three components have to emit for a request:
\* of every token, of every leetspeak variant of a token (if leet is on), of
\* every combination (if combinations are on); those of 3 characters or more
CapitalizedForms(req) ==
    LET toks == Tokens(req)
        base == BaseWords(req)
        pairs == {p \in (DOMAIN base) \X (DOMAIN base) :
                     p[1] # p[2] /\ Clean(base[p[1]]) # <<>> /\ Clean(base[p[2]]) # <<>>}
    IN  {c \in {ProperCap(n) : n \in toks}
               \cup (IF req.include_leet
                     THEN UNION {{ProperCap(v) : v \in LeetProduct(n) \ {n}} : n \in toks}
                     ELSE {})
               \cup (IF req.include_combinations
                     THEN {ProperCap(Clean(base[p[1]]) \o separators[s] \o Clean(base[p[2]])) :
                              p \in pairs, s \in DOMAIN separators}
                     ELSE {})
           : Len(c) >= 3}

\* C9: every capitalized form the variation expander, the leetspeak expander
\* and the combination synthesizer emit has its first character upper-cased
\* and every other character lower-cased, whatever the casing of the seed:
\* these forms are in the result, and a word of the result with more than one
\* upper-case letter is the fully upper-cased form of a token (for the seed
\* "DOG": "Dog", "D0g", "Dog_a", never "DOG1" or "DOG_a").
C9_Capitalization ==
    (pc = "generated" /\ ~Truncated /\ FewBaseWords(request)) =>
        /\ CapitalizedForms(request) \subseteq Words
        /\ \A w \in Words :
              UpperCount(w) > 1 => w \in {upper(n) : n \in Tokens(request)}

\* the upper-case seed "DOG" with leetspeak and combinations on: "Dog", "D0g",
\* "Dog1" and "Dog_a" are emitted, "DOG1" is not
C9_Witness ==
    /\ pc = "generated"
    /\ request.names = << <<68, 79, 71>>, <<97>> >>
    /\ request.include_leet /\ request.include_combinations
    /\ ~Truncated
    /\ {<<68, 111, 103>>, <<68, 48, 103>>, <<68, 111, 103, 49>>,
        <<68, 111, 103, 95, 97>>} \subseteq Words
    /\ <<68, 79, 71, 49>> \notin Words

\* what the identity, affix, numeric-suffix and year-suffix rules give for the
\* tokens of a request, and what the combination synthesizer can give
NonLeetForms(req) ==
    UNION {IdentityForms(n) \cup AffixForms(n) \cup NumberForms(n)
           \cup (IF req.include_years THEN YearForms(n, years) ELSE {}) :
               n \in Tokens(req)}
CombinationForms(req) ==
    IF req.include_combinations
    THEN AllCombos(Slice(BaseWords(req), ComboWords), req.include_years, years)
    ELSE {}
\* the leetspeak variants of the tokens that no other rule gives
LeetOnlyForms(req) ==
    UNION {generate_leet_variations(n) : n \in Tokens(req)}
    \ (NonLeetForms(req) \cup CombinationForms(req))

\* C10: with include_leet off, every word of the result is given by the
\* identity, affix, numeric-suffix or year-suffix rules or by the combination
\* synthesizer; no word is there that only a leetspeak substitution gives.
C10_LeetToggle ==
    (pc = "generated" /\ ~request.include_leet) =>
        /\ Words \subseteq (NonLeetForms(request) \cup CombinationForms(request))
        /\ Words \cap LeetOnlyForms(request) = {}

\* the seed "DOG" with include_leet off: "dog" is in the result, its leetspeak
\* variants "d0g", "do9", "D09" are not
C10_Witness ==
    /\ pc = "generated"
    /\ ~request.include_leet
    /\ request.names = << <<68, 79, 71>> >>
    /\ ~Truncated
    /\ <<100, 111, 103>> \in Words
    /\ {<<100, 48, 103>>, <<100, 111, 57>>, <<68, 48, 57>>} \subseteq LeetOnlyForms(request)
    /\ {<<100, 48, 103>>, <<100, 111, 57>>, <<68, 48, 57>>} \cap Words = {}

\* the six fields of the stats record
StatsFields ==
    {"total_words", "avg_length", "min_length", "max_length", "unique_words",
     "charset_distribution"}

\* C11: for every wordlist, the empty one included, the record that
\* get_wordlist_stats returns has all six fields total_words, avg_length,
\* min_length, max_length, unique_words and charset_distribution, total_words is
\* the length of the list and min_length <= max_length.
C11_StatsRecord ==
    pc = "reported" =>
        /\ DOMAIN stats = StatsFields
        /\ stats.total_words = Len(wordlist)
        /\ stats.min_length <= stats.max_length

\* a seed of the three word lists that gives no token, a date that gives none
UsableSeed(s) == Clean(s) # <<>>
UsableDate(d) == process_dates(<<d>>) # <<>>
\* the request without its malformed entries
WellFormed(req) ==
    [req EXCEPT !.names = SelectSeq(@, UsableSeed),
                !.pets = SelectSeq(@, UsableSeed),
                !.interests = SelectSeq(@, UsableSeed),
                !.dates = SelectSeq(@, UsableDate)]

\* C12: whatever strings the four lists hold (empty, blank, symbols only,
\* malformed dates), whatever the flags and whatever integer max_words is,
\* generate_wordlist does not raise and returns a list, and the malformed
\* entries only make the result smaller: it is no longer than the result for
\* the request without them.
C12_ErrorsAsValues ==
    /\ pc # "raised"
    /\ Returned =>
          /\ DOMAIN wordlist = 1..Len(wordlist)
          /\ Len(wordlist) <= Len(generate_wordlist(WellFormed(request), years, hashseed))

\* a call with a symbol-only name, a date no pattern matches and a negative
\* max_words has returned words
C12_Witness ==
    /\ Returned
    /\ \E i \in DOMAIN request.names : ~UsableSeed(request.names[i])
    /\ \E i \in DOMAIN request.dates : ~UsableDate(request.dates[i])
    /\ request.max_words < 0
    /\ wordlist # <<>>

\* C13: the year window the generator works with (year-suffix rule,
\* combinations, scorer) is exactly the years from the reference year - 50
\* through the reference year + 5, both included; the reference year is the
\* year of the call (the code has no argument for it: the window is computed
\* from the clock when the instance is made).
C13_YearWindow ==
    Returned => SeqToSet(years) = {str(y) : y \in (clock - 50)..(clock + 5)}

\* C14: whatever the tokens and the flags, the set _generate_combinations
\* returns has at most 1000 entries, and it is empty when the list has fewer
\* than two tokens.
C14_CombinationCap ==
    Applied("_generate_combinations") =>
        /\ Cardinality(applied.result) <= 1000
        /\ Len(applied.args.words) < 2 => applied.result = {}

\* five different tokens with the years give more than 1000 combinations, and
\* 1000 of them were returned
C14_Witness ==
    /\ Applied("_generate_combinations")
    /\ Cardinality(applied.result) = 1000
    /\ Cardinality(AllCombos(applied.args.words, applied.args.include_years, years)) > 1000

\* C15: generate_wordlist leaves the fields of the instance as __init__ made
\* them (self.years here; no method assigns the other tables), so every call,
\* however its steps are interleaved with those of other calls on the same
\* instance, returns what it returns when it runs alone.
C15_Reentrancy ==
    /\ years = YearWindow(clock)
    /\ \A c \in Callers :
          /\ calls[c].pc # "raised"
          /\ calls[c].pc = "returned" =>
                calls[c].result = generate_wordlist(calls[c].request, YearWindow(clock),
                                                    hashseed)

\* two calls with different arguments ran at the same time and both returned
C15_Witness ==
    \E c, d \in Callers :
        /\ c # d
        /\ calls[c].pc = "returned" /\ calls[d].pc = "returned"
        /\ calls[c].overlapped /\ calls[d].overlapped
        /\ calls[c].request # calls[d].request
        /\ calls[c].result # <<>> /\ calls[d].result # <<>>

\* the float score of the password last analyzed, before int() and the cut
RawScoreOf(password) ==
    raw_score(Len(password), identify_character_sets(password),
              calculate_entropy(password, identify_character_sets(password)),
              detect_patterns(password), password)

C17_Normalization ==
    Applied("_generate_word_variations") =>
        LET word == applied.args.word
        IN  /\ Clean(word) = lower(SelectSeq(word, IsWordCh))
            /\ (\A i \in DOMAIN word : ~IsAlnumCh(word[i])) =>
                  Clean(word) = <<>> /\ applied.result = {}
            /\ Clean(word) = <<>> => applied.result = {}

\* the variation rules of a token n, written out
VariationRules(n, include_leet, include_years, window) ==
    LET forms == {n, capitalize(n)}
        rule1 == forms \cup {upper(n)}
        rule2 == {prefixes[p] \o f \o suffixes[s] :
                     f \in forms,
                     p \in {p \in DOMAIN prefixes : prefixes[p] # <<>>},
                     s \in DOMAIN suffixes}
                 \cup {f \o suffixes[s] :
                          f \in forms, s \in {s \in DOMAIN suffixes : suffixes[s] # <<>>}}
        rule3 == {f \o common_numbers[k] : f \in forms, k \in DOMAIN common_numbers}
                 \cup {common_numbers[k] \o n : k \in DOMAIN common_numbers}
        rule4 == IF include_years THEN {f \o y : f \in forms, y \in window} ELSE {}
        rule5 == IF include_leet THEN generate_leet_variations(n) ELSE {}
    IN  {v \in rule1 \cup rule2 \cup rule3 \cup rule4 \cup rule5 : Len(v) >= 3}

\* C19: the variations of a token n are exactly the strings of three or more
\* characters among (1) n, Capitalized(n), UPPER(n); (2) prefix + n + suffix
\* and prefix + Capitalized(n) + suffix for prefixes and suffixes not both
\* empty; (3) n + num, Capitalized(n) + num, num + n; (4) n + year and
\* Capitalized(n) + year for the years of the window, with include_years only;
\* (5) the leetspeak forms, with include_leet only.
C19_VariationRules ==
    Applied("_generate_word_variations") /\ Clean(applied.args.word) # <<>> =>
        applied.result = VariationRules(Clean(applied.args.word), applied.args.include_leet,
                                        applied.args.include_years, SeqToSet(years))

\* the variations of a two-character token were generated with years and
\* leetspeak forms: some forms of every rule are kept, and the forms of less
\* than three characters are not
C19_Witness ==
    /\ Applied("_generate_word_variations")
    /\ applied.args.include_years
    /\ applied.args.include_leet
    /\ Len(Clean(applied.args.word)) = 2
    /\ \E v \in generate_leet_variations(Clean(applied.args.word)) : v \notin applied.result
    /\ Clean(applied.args.word) \o years[1] \in applied.result
    /\ Clean(applied.args.word) \notin applied.result

\* what one date string gives: the groups of the matches of the five
\* patterns, pattern after pattern, on the string without the blanks around it
DateFragments(date) ==
    LET s == strip(date)
    IN  FindAll(1, s, 1) \o FindAll(2, s, 1) \o FindAll(3, s, 1) \o FindAll(4, s, 1)
        \o FindAll(5, s, 1)
RECURSIVE FragmentsOfAll(_)
FragmentsOfAll(dates) ==
    IF dates = <<>> THEN <<>> ELSE DateFragments(Head(dates)) \o FragmentsOfAll(Tail(dates))

\* a run of four digits, which each of the five patterns asks for
HasFourDigits(s) == \E i \in DOMAIN s : DigitsAt(s, i, 4)

\* "12/15/1990" and what it yields: 1990, then 12, 15, 1990
SlashDate == <<49, 50, 47, 49, 53, 47, 49, 57, 57, 48>>
SlashDateFragments == << <<49, 57, 57, 48>>, <<49, 50>>, <<49, 53>>, <<49, 57, 57, 48>> >>

\* C18: _process_dates keeps, for each date string, every group of every
\* match of the five patterns in their order ("12/15/1990" yields 1990, then
\* 12, 15, 1990); every fragment returned is made of digits only; a string
\* that matches no pattern, an empty one and a blank one contribute nothing,
\* and nothing is raised.
C18_DateExtraction ==
    Applied("_process_dates") =>
        /\ pc # "raised"
        /\ applied.result = FragmentsOfAll(applied.args)
        /\ \A i \in DOMAIN applied.result : isdigit(applied.result[i])
        /\ applied.args = <<SlashDate>> => applied.result = SlashDateFragments
        /\ (\A i \in DOMAIN applied.args : ~HasFourDigits(applied.args[i])) =>
              applied.result = <<>>

\* "12/15/1990" was processed after a blank string: the blank string gave
\* nothing, the date gave its year twice, its month and its day
C18_Witness ==
    /\ Applied("_process_dates")
    /\ applied.args = << <<32>>, SlashDate >>
    /\ applied.result = SlashDateFragments

\* the options of one character: itself, then its substitutes from the table
LeetChoices(c) ==
    <<c>> \o (IF c \in DOMAIN leet_substitutions THEN leet_substitutions[c] ELSE <<>>)

\* the cartesian product of the options of the characters of a token: one
\* string for every choice of one option at every position
ProductStrings(token) ==
    LET most == MaxOf({Len(LeetChoices(token[i])) : i \in DOMAIN token} \cup {1})
        picks == {f \in [DOMAIN token -> 1..most] :
                     \A i \in DOMAIN token : f[i] <= Len(LeetChoices(token[i]))}
    IN  {[i \in DOMAIN token |-> LeetChoices(token[i])[f[i]]] : f \in picks}

\* C20: for a lower-cased token of at most six characters
\* _generate_leet_variations returns exactly the strings of the cartesian
\* product of the options of its characters that differ from the token, and
\* the capitalized form of each of them; the token is never returned.
C20_LeetShortPath ==
    /\ Applied("_generate_leet_variations")
    /\ applied.args = lower(applied.args)
    /\ Len(applied.args) <= LeetProductMaxLen
    => LET differing == {v \in ProductStrings(applied.args) : v # applied.args}
       IN  /\ applied.result = differing \cup {capitalize(v) : v \in differing}
           /\ applied.args \notin applied.result

\* a token of six characters with substitutes was expanded: the result has
\* strings of the product and capitalized forms that are no such strings
C20_Witness ==
    /\ Applied("_generate_leet_variations")
    /\ Len(applied.args) = LeetProductMaxLen
    /\ \E v \in applied.result :
          /\ v \in ProductStrings(applied.args)
          /\ capitalize(v) \in applied.result \ ProductStrings(applied.args)

\* the token with every occurrence of the letter c replaced by s
AllReplaced(token, c, s) == [i \in DOMAIN token |-> IF token[i] = c THEN s ELSE token[i]]
\* the positions where a variant, capitalized or not, differs from the token
Changed(v, token) == {i \in DOMAIN token : LowerCh(v[i]) # token[i]}

\* C21: for a lower-cased token of more than six characters
\* _generate_leet_variations returns exactly, for every letter c of the table
\* that occurs in the token and every substitute s of c, the token with all
\* occurrences of c replaced by s, and its capitalized form; no variant
\* substitutes two different letters, none leaves an occurrence of the
\* substituted letter, none is the token.
C21_LeetLongPath ==
    /\ Applied("_generate_leet_variations")
    /\ applied.args = lower(applied.args)
    /\ Len(applied.args) > LeetProductMaxLen
    => LET token == applied.args
           single == {AllReplaced(token, c, leet_substitutions[c][k]) :
                         <<c, k>> \in {<<c, k>> \in SeqToSet(token) \X (1..Len(token)) :
                                           /\ c \in DOMAIN leet_substitutions
                                           /\ k <= Len(leet_substitutions[c])}}
       IN  /\ applied.result = single \cup {capitalize(v) : v \in single}
           /\ token \notin applied.result
           /\ \A v \in applied.result :
                 /\ Len(v) = Len(token)
                 /\ \E c \in DOMAIN leet_substitutions :
                       /\ Changed(v, token) = {i \in DOMAIN token : token[i] = c}
                       /\ Changed(v, token) # {}
                       /\ \E k \in DOMAIN leet_substitutions[c] :
                             \A i \in Changed(v, token) : v[i] = leet_substitutions[c][k]

\* "illinois" was expanded: "1ll1no1s" has all three i replaced and no l,
\* "i11inois" has both l replaced and no i
C21_Witness ==
    /\ Applied("_generate_leet_variations")
    /\ applied.args = <<105, 108, 108, 105, 110, 111, 105, 115>>
    /\ <<49, 108, 108, 49, 110, 111, 49, 115>> \in applied.result
    /\ <<105, 49, 49, 105, 110, 111, 105, 115>> \in applied.result
    /\ <<73, 49, 49, 105, 110, 111, 105, 115>> \in applied.result

\* the substitutes of the table, all letters together
NumSubstitutes(c) == Len(leet_substitutions[c])
RECURSIVE TableSubstitutes(_)
TableSubstitutes(letters) ==
    IF letters = {} THEN 0
    ELSE LET c == MinOf(letters)
         IN  NumSubstitutes(c) + TableSubstitutes(letters \ {c})

\* C28: _generate_leet_variations returns at most 2 * (3^6 - 1) = 1456
\* strings for every token, and at most 24 strings (the 12 substitutes of
\* the table, each with its capitalized form) for a token of more than six
\* characters, however long it is.
C28_LeetOutputBound ==
    Applied("_generate_leet_variations") =>
        /\ IsFiniteSet(applied.result)
        /\ Cardinality(applied.result) <= 2 * (3^6 - 1)
        /\ Len(applied.args) > 6 =>
              /\ Cardinality(applied.result) <= 24
              /\ Cardinality(applied.result) <= 2 * TableSubstitutes(DOMAIN leet_substitutions)

\* "xaeiostlgb" has every letter of the table after a letter without a
\* substitute: it gives 24 strings
C28_Witness ==
    /\ Applied("_generate_leet_variations")
    /\ applied.args = <<120, 97, 101, 105, 111, 115, 116, 108, 103, 98>>
    /\ Cardinality(applied.result) = 24

\* the normalized tokens of a list of words
TokensOf(words) == {Clean(words[i]) : i \in DOMAIN words} \ {<<>>}
\* the candidates of the ordered pairs of distinct tokens
DistinctPairCombos(words, include_years, yrs) ==
    UNION {PairCombos(t[1], t[2], include_years, yrs) :
               t \in {t \in TokensOf(words) \X TokensOf(words) : t[1] # t[2]}}

\* C22: the combination synthesizer builds the candidates of every ordered
\* pair of distinct tokens, in both orders, and of such pairs only: it never
\* joins a token with itself, also when the token is in the list twice.
C22_CombinationPairs ==
    Applied("_generate_combinations") =>
        LET distinct == DistinctPairCombos(applied.args.words, applied.args.include_years,
                                           years)
        IN  /\ (Len(applied.args.words) >= 2 /\ Cardinality(distinct) <= ComboCap) =>
                  distinct \subseteq applied.result
            /\ applied.result \subseteq distinct

\* the base tokens of a request after normalization, the empty ones dropped
NormalizedTokens(req) ==
    SelectSeq([i \in DOMAIN BaseWords(req) |-> Clean(BaseWords(req)[i])],
              LAMBDA n : n # <<>>)

\* C23: the combination synthesizer works on the first 5 base tokens counted
\* after normalization: a seed that normalizes to the empty string takes none
\* of the 5 places, and every two different tokens among those five are
\* combined (seen here on their join with "_", without years, when the
\* combination set stays under its cap and the list is not cut).
C23_CombinationWindow ==
    (Returned /\ request.include_combinations /\ ~request.include_years /\ ~Truncated) =>
        LET window == Slice(NormalizedTokens(request), ComboWords)
        IN  \A i, j \in DOMAIN window :
                window[i] # window[j] => (window[i] \o <<95>> \o window[j]) \in Words

\* the score as the formula gives it; the markers are '@', '3', '1', '0', '5', '7'
FormulaMarkers == {64, 51, 49, 48, 53, 55}
FormulaScore(word, window) ==
    LET markers == Cardinality({i \in DOMAIN word : word[i] \in FormulaMarkers})
    IN  (IF 20 - Len(word) > 0 THEN 20 - Len(word) ELSE 0)
        + (IF IsDigitCh(word[Len(word)]) THEN 10 ELSE 0)
        + (IF IsUpperCh(word[1]) /\ word = capitalize(word) THEN 5 ELSE 0)
        + (IF \E y \in 1..10 : Contains(word, window[y]) THEN 15 ELSE 0)
        + (IF 3 * markers < 10 THEN 3 * markers ELSE 10)

\* C24: the score of a word is max(0, 20 - length), + 10 if it ends in
\* digits, + 5 if it is its own capitalized form, + 15 once if one of the
\* first ten years of the window is in it, + min(3 * markers, 10), the
\* markers being the characters '@', '3', '1', '0', '5', '7' and no other.
C24_ScoreFormula ==
    Applied("word_score") => applied.result = FormulaScore(applied.args, years)

\* C25: the list cut by _prioritize_words is in the order of non-increasing
\* score, two kept words of equal score are in lexicographic order, and when
\* the cut falls inside a group of words of equal score the
\* lexicographically smaller words of the group are the ones kept.
C25_TieBreaking ==
    (pc = "generated" /\ Truncated) =>
        /\ \A i \in 1..(Len(wordlist) - 1) :
              \/ Score(wordlist[i]) > Score(wordlist[i + 1])
              \/ /\ Score(wordlist[i]) = Score(wordlist[i + 1])
                 /\ Less(wordlist[i], wordlist[i + 1])
        /\ \A k \in DOMAIN final_wordlist :
              final_wordlist[k] \notin Words =>
                  \A i \in DOMAIN wordlist :
                      Score(wordlist[i]) = Score(final_wordlist[k]) =>
                          Less(wordlist[i], final_wordlist[k])

\* a list was cut inside a group of equal score: a discarded word scores as
\* much as the last kept word, two kept words have the same score and two
\* have different scores
C25_Witness ==
    /\ pc = "generated"
    /\ Truncated
    /\ Len(wordlist) = 7
    /\ \E k \in DOMAIN final_wordlist :
          /\ final_wordlist[k] \notin Words
          /\ Score(final_wordlist[k]) = Score(wordlist[7])
    /\ \E i \in 1..6 : Score(wordlist[i]) = Score(wordlist[i + 1])
    /\ Score(wordlist[1]) > Score(wordlist[7])

\* C26: when the aggregate has no more than max_words entries,
\* _prioritize_words is not invoked and the result is the aggregate, the
\* union of the variations of every base token and, with
\* include_combinations, of the combinations, in strictly ascending
\* lexicographic order.
C26_UntruncatedOrder ==
    (pc = "generated" /\ Len(final_wordlist) <= request.max_words) =>
        /\ ~Truncated
        /\ wordlist = final_wordlist
        /\ IsSortedSeq(wordlist)
        /\ Words = WordVariations(BaseWords(request), request, years)
                   \cup (IF request.include_combinations
                         THEN WordCombinations(BaseWords(request), request, years, hashseed)
                         ELSE {})

\* an aggregate of exactly max_words words, combinations among them, was
\* returned whole
C26_Witness ==
    /\ pc = "generated"
    /\ request.include_combinations
    /\ Len(final_wordlist) = request.max_words
    /\ Len(wordlist) = request.max_words
    /\ Len(wordlist) > 100

\* the request with include_years switched off
WithoutYears(req) == [req EXCEPT !.include_years = FALSE]

\* C27: for the same seeds, and max_words large enough for nothing to be
\* cut, every word of the result with include_years off is in the result
\* with include_years on, the combination words too, also when five tokens
\* make the combination set exceed its cap of 1000.
C27_FlagMonotonicity ==
    (pc = "generated" /\ request.include_years
        /\ Len(final_wordlist) <= request.max_words) =>
        Aggregate(WithoutYears(request), years, hashseed) \subseteq Words

====
